---- MODULE Spec2Model ----
(***************************************************************************)
(* The index builder of src/chat-participant/astra-index.py as a state     *)
(* machine: the directory scan, the per-candidate indexing pass and the    *)
(* serialization of the index, over a small bounded workspace.             *)
(*                                                                         *)
(* A path is the sequence of its components; a line of text is the         *)
(* sequence of its tokens, where "ws" is one whitespace character, a word  *)
(* is a maximal run of \w characters and every other token is one          *)
(* punctuation character.                                                  *)
(***************************************************************************)
EXTENDS Integers, Sequences, FiniteSets, TLC

VARIABLES
    fs,                 \* the workspace: file path -> what reading the file gives
    folders,            \* the root folders, in the order given (absolute paths)
    output_path,        \* where the index is written
    argv,               \* the option words of the command line, besides --output
    PARSERS_AVAILABLE,  \* the parser capabilities probed at import time
    outfile,            \* the artifact at output_path: absent, empty, partial, complete
    out_text,           \* the lines written to the artifact so far
    pc,                 \* position of the run
    scanned,            \* number of folders scanned so far
    all_files,          \* the candidates, in scan order
    i,                  \* number of candidates whose processing is finished
    k,                  \* records of the current file copied to the global list
    index,              \* index['files'] and index['functions']
    stats,              \* the counters
    opened,             \* paths on which file or parser I/O was attempted
    attempts,           \* per processed candidate: what became of it
    exit_code,          \* "running", then the exit status "0" or "1", or "killed"
    run,                \* number of the current run, which also serves as the clock
    start_view,         \* the workspace as it was when the current run started
    prev                \* what the earlier runs saw and built

vars == <<fs, folders, output_path, argv, PARSERS_AVAILABLE, outfile, out_text, pc,
          scanned,
          all_files, i, k, index, stats, opened, attempts, exit_code, run,
          start_view, prev>>

(***************************************************************************)
(* Bounds of the model.                                                    *)
(***************************************************************************)
MaxRoots == 2
MaxRuns == 2
MaxLines == 2
MaxTokens == 4

(***************************************************************************)
(* Program constants.                                                      *)
(***************************************************************************)
CODE_EXTENSIONS ==
    { ".tal", ".cbl", ".cob", ".cobol", ".pli", ".pco", ".cpy",
      ".java", ".py", ".js", ".ts", ".jsx", ".tsx",
      ".c", ".cpp", ".h", ".hpp", ".cs", ".go", ".rs", ".rb",
      ".sql", ".json", ".yaml", ".yml", ".xml",
      ".txt", ".md", ".csv" }

DOC_EXTENSIONS ==
    [e \in {".pdf", ".xlsx", ".xls", ".docx"} |->
        CASE e = ".pdf"  -> "pdf"
          [] e = ".xlsx" -> "excel"
          [] e = ".xls"  -> "excel"
          [] e = ".docx" -> "word"]

SKIP_DIRS ==
    { "node_modules", ".git", ".svn", "__pycache__",
      "venv", ".venv", "env", ".env",
      "dist", "build", "target", "out",
      "generated" }

(***************************************************************************)
(* Sequences and paths.                                                    *)
(***************************************************************************)
IsPrefix(s, t) == Len(s) <= Len(t) /\ SubSeq(t, 1, Len(s)) = s

Parent(p) == SubSeq(p, 1, Len(p) - 1)

Name(p) == p[Len(p)]

RECURSIVE SumSeq(_)
SumSeq(s) == IF s = <<>> THEN 0 ELSE Head(s) + SumSeq(Tail(s))

RECURSIVE Flatten(_, _)
\* The sequences ss[n], ss[n + 1], ... joined.
Flatten(ss, n) == IF n > Len(ss) THEN <<>> ELSE ss[n] \o Flatten(ss, n + 1)

RECURSIVE SetToSeq(_)
\* Some fixed enumeration of a finite set: the order in which the operating
\* system lists a directory, which is arbitrary but the same for an unchanged
\* directory.
SetToSeq(S) ==
    IF S = {} THEN <<>>
    ELSE LET x == CHOOSE y \in S : TRUE IN <<x>> \o SetToSeq(S \ {x})

\* Path.suffix followed by lower(): the extension of a file name.
Suffix(name) ==
    CASE name = "a.py"  -> ".py"
      [] name = "a.c"   -> ".c"
      [] name = "b.pdf" -> ".pdf"
      [] name = "b.xlsx" -> ".xlsx"
      [] name = "b.docx" -> ".docx"
      [] name = "b.bin" -> ".bin"
      [] name = "C.PY"  -> ".PY"
      [] name = ".astra-index.json" -> ".json"
      [] name = "a.tal"  -> ".tal"
      [] name = "a.cbl"  -> ".cbl"
      [] name = "a.cpy"  -> ".cpy"
      [] name = "a.java" -> ".java"
      [] name = "a.js"   -> ".js"
      [] name = "a.tsx"  -> ".tsx"
      [] name = "a.go"   -> ".go"
      [] name = "a.pli"  -> ".pli"
      [] name = "a.sql"  -> ".sql"
      [] name = "a.md"   -> ".md"
      [] OTHER -> ""

Lower(ext) == IF ext = ".PY" THEN ".py" ELSE ext

(***************************************************************************)
(* The workspace.  The directories are fixed; what each file holds is      *)
(* chosen in Init.  A file is what the readers can observe of it:          *)
(*   openable    open() succeeds (it raises OSError otherwise)             *)
(*   bytes       "ascii", "utf8" (valid UTF-8 with non-ASCII characters),  *)
(*               "latin" (high bytes, not valid UTF-8) or "undef" (not     *)
(*               valid UTF-8 and holding a byte cp1252 leaves undefined)   *)
(*   text        the lines of the decoded or extracted text                *)
(*   plumber_ok  pdfplumber extracts the file without raising              *)
(*   lib_ok      PdfReader / openpyxl / python-docx does                   *)
(*   units       the pages, sheets or paragraphs the parser counts         *)
(***************************************************************************)
W == <<"w">>
WSub == <<"w", "sub">>
WBuild == <<"w", "build">>
Missing == <<"m">>
Outside == <<"o">>

Dirs == {W, WSub, WBuild}

Roots == Dirs \cup {Missing}

PySrc ==
    << <<"def", "ws", "handler", "(", "x", ")", ":">>,
       <<"ws", "ws", "return", "ws", "x">>,
       <<"class", "ws", "Handler", ":">>,
       <<>> >>

PySrcIndented == << <<"ws", "def", "ws", "run", "ws", "(", ")", ":">> >>

CSrc == << <<"int", "ws", "main", "(", ")">>, <<>> >>

DocText == << <<"Total", "ws", "due">>, <<>>, <<"ws">> >>

TextFile(openable, bytes, text) ==
    [openable |-> openable, bytes |-> bytes, text |-> text,
     plumber_ok |-> FALSE, lib_ok |-> FALSE, units |-> 0]

DocFile(plumber_ok, lib_ok) ==
    [openable |-> TRUE, bytes |-> "undef", text |-> DocText,
     plumber_ok |-> plumber_ok, lib_ok |-> lib_ok, units |-> 1]

\* What the first directory can hold: one code file.
FilesOfW ==
    { [p \in {W \o <<"a.py">>} |-> TextFile(TRUE, "utf8", PySrc)],
      [p \in {W \o <<"a.py">>} |-> TextFile(FALSE, "utf8", PySrc)],
      [p \in {W \o <<"a.c">>}  |-> TextFile(TRUE, "latin", CSrc)] }

\* What its subdirectory can hold: one document, or a file that is not indexed.
FilesOfWSub ==
    { [p \in {WSub \o <<"b.pdf">>} |-> DocFile(po, lo)] : po, lo \in BOOLEAN }
    \cup { [p \in {WSub \o <<"b.xlsx">>} |-> DocFile(FALSE, lo)] : lo \in BOOLEAN }
    \cup { [p \in {WSub \o <<"b.docx">>} |-> DocFile(FALSE, TRUE)],
           [p \in {WSub \o <<"b.bin">>}  |-> TextFile(TRUE, "undef", CSrc)] }

\* What the excluded directory holds: a code file with an upper-case extension.
FilesOfWBuild ==
    { [p \in {WBuild \o <<"C.PY">>} |-> TextFile(TRUE, "ascii", PySrcIndented)] }

Workspaces == { a @@ b @@ c : a \in FilesOfW, b \in FilesOfWSub, c \in FilesOfWBuild }

\* The artifact, once created, is a file like any other.
ArtifactFile == TextFile(TRUE, "ascii", out_text)

FilePaths ==
    DOMAIN fs \cup (IF outfile # "absent" THEN {output_path} ELSE {})

File(p) == IF p = output_path /\ outfile # "absent" THEN ArtifactFile ELSE fs[p]

\* What a run can see of the workspace: two runs see the same workspace when
\* this is the same at their start.
WorkspaceView ==
    [p \in {q \in FilePaths : Parent(q) \in Dirs} |-> File(p)]

(***************************************************************************)
(* parse_pdf, parse_excel, parse_word, parse_document.  A result is the    *)
(* pair (text, metadata) of the code, with ok = FALSE for a text of None,  *)
(* and io = TRUE when the call reached the parser library.                 *)
(***************************************************************************)
NoText(error, io) ==
    [ok |-> FALSE, text |-> <<>>, metadata |-> [key |-> "error", value |-> error],
     io |-> io]

SomeText(f, key) ==
    [ok |-> TRUE, text |-> f.text, metadata |-> [key |-> key, value |-> f.units],
     io |-> TRUE]

\* The parsers a call of parse_pdf has used, in order, once pdfplumber is done.
PdfCalls(second) ==
    [calls |-> (IF PARSERS_AVAILABLE.pdfplumber THEN <<"pdfplumber">> ELSE <<>>)
               \o second]

\* Faulty variant: a failure of pdfplumber is returned instead of passed over.
parse_pdf_no_fallback(f) ==
    IF PARSERS_AVAILABLE.pdfplumber
    THEN (IF f.plumber_ok THEN SomeText(f, "pages")
                          ELSE NoText("pdfplumber raised", TRUE))
         @@ [calls |-> <<"pdfplumber">>]
    ELSE IF PARSERS_AVAILABLE.pdf
         THEN (IF f.lib_ok THEN SomeText(f, "pages")
                           ELSE NoText("PdfReader raised", TRUE))
              @@ PdfCalls(<<"PyPDF2">>)
         ELSE NoText("No PDF parser installed", FALSE) @@ PdfCalls(<<>>)

\* The result carries, besides the pair the code returns, the parsers used.
parse_pdf(f) ==
    IF PARSERS_AVAILABLE.pdfplumber /\ f.plumber_ok
    THEN SomeText(f, "pages") @@ [calls |-> <<"pdfplumber">>]
    ELSE IF PARSERS_AVAILABLE.pdf
         THEN (IF f.lib_ok THEN SomeText(f, "pages")
                           ELSE NoText("PdfReader raised", TRUE))
              @@ PdfCalls(<<"PyPDF2">>)
         ELSE NoText("No PDF parser installed", PARSERS_AVAILABLE.pdfplumber)
              @@ PdfCalls(<<>>)

parse_excel(f) ==
    IF ~PARSERS_AVAILABLE.excel
    THEN NoText("openpyxl not installed", FALSE)
    ELSE IF f.lib_ok THEN SomeText(f, "sheets")
                     ELSE NoText("load_workbook raised", TRUE)

parse_word(f) ==
    IF ~PARSERS_AVAILABLE.word
    THEN NoText("python-docx not installed", FALSE)
    ELSE IF f.lib_ok THEN SomeText(f, "paragraphs")
                     ELSE NoText("Document raised", TRUE)

parse_document(f, doc_type) ==
    CASE doc_type = "pdf"   -> parse_pdf(f)
      [] doc_type = "excel" -> parse_excel(f)
      [] doc_type = "word"  -> parse_word(f)
      [] OTHER              -> NoText("Unknown document type", FALSE)

\* The capability of a document kind, as the startup banner reports it.
CapabilityAvailable(doc_type) ==
    CASE doc_type = "pdf"   -> PARSERS_AVAILABLE.pdf \/ PARSERS_AVAILABLE.pdfplumber
      [] doc_type = "excel" -> PARSERS_AVAILABLE.excel
      [] doc_type = "word"  -> PARSERS_AVAILABLE.word
      [] OTHER              -> FALSE

(***************************************************************************)
(* read_text_file: "text", "none" (the function returns None) or "raise"   *)
(* (open() raised an exception that the function does not catch).          *)
(***************************************************************************)
\* Faulty variant: the single-byte fallback is tried before UTF-8.
EncodingsLatinFirst == <<"latin-1", "utf-8", "cp1252", "ascii">>

Encodings == <<"utf-8", "latin-1", "cp1252", "ascii">>

\* Faulty variant: latin-1 refuses the bytes that cp1252 leaves undefined.
DecodesLatinStrict(encoding, bytes) ==
    CASE encoding = "utf-8"   -> bytes \in {"ascii", "utf8"}
      [] encoding = "latin-1" -> bytes # "undef"
      [] encoding = "cp1252"  -> bytes # "undef"
      [] encoding = "ascii"   -> bytes = "ascii"

Decodes(encoding, bytes) ==
    CASE encoding = "utf-8"   -> bytes \in {"ascii", "utf8"}
      [] encoding = "latin-1" -> TRUE
      [] encoding = "cp1252"  -> bytes # "undef"
      [] encoding = "ascii"   -> bytes = "ascii"

RECURSIVE TryEncodings(_, _)
TryEncodings(f, encodings) ==
    IF encodings = <<>>
    THEN \* binary fallback: decode with errors='replace', None if open fails
         IF f.openable THEN [kind |-> "text", text |-> f.text, encoding |-> "binary"]
                       ELSE [kind |-> "none", text |-> <<>>, encoding |-> "binary"]
    ELSE IF ~f.openable
         THEN [kind |-> "raise", text |-> <<>>, encoding |-> Head(encodings)]
         ELSE IF Decodes(Head(encodings), f.bytes)
              THEN [kind |-> "text", text |-> f.text, encoding |-> Head(encodings)]
              ELSE TryEncodings(f, Tail(encodings))

read_text_file(f) == TryEncodings(f, Encodings)

(***************************************************************************)
(* extract_functions.  re.match anchors at the start of the line; on       *)
(* tokens, \s* skips "ws" tokens, \s+ needs at least one, and \w+ before   *)
(* whitespace or punctuation is one whole word.                            *)
(***************************************************************************)
Punctuation == {"ws", "(", ")", ":", ".", "=", "-", ",", ";", "{", "}"}

IsWord(tok) == tok \notin Punctuation

RECURSIVE SkipWs(_, _)
\* The first position at or after p that holds no whitespace.
SkipWs(line, p) ==
    IF p <= Len(line) /\ line[p] = "ws" THEN SkipWs(line, p + 1) ELSE p

At(line, p) == IF p >= 1 /\ p <= Len(line) THEN line[p] ELSE "<end>"

\* Faulty variant: the opening parenthesis is not asked for.
MatchPyDefNoParen(line) ==
    LET d == SkipWs(line, 1)
        n == SkipWs(line, d + 1)
    IN  IF /\ At(line, d) = "def"
           /\ At(line, d + 1) = "ws"
           /\ At(line, n) # "<end>" /\ IsWord(At(line, n))
        THEN n ELSE 0

\* ^\s*def\s+(\w+)\s*\(  : the position of the name, or 0
MatchPyDef(line) ==
    LET d == SkipWs(line, 1)
        n == SkipWs(line, d + 1)
        b == SkipWs(line, n + 1)
    IN  IF /\ At(line, d) = "def"
           /\ At(line, d + 1) = "ws"
           /\ At(line, n) # "<end>" /\ IsWord(At(line, n))
           /\ At(line, b) = "("
        THEN n ELSE 0

\* ^\s*class\s+(\w+)  : the position of the name, or 0
MatchPyClass(line) ==
    LET c == SkipWs(line, 1)
        n == SkipWs(line, c + 1)
    IN  IF /\ At(line, c) = "class"
           /\ At(line, c + 1) = "ws"
           /\ At(line, n) # "<end>" /\ IsWord(At(line, n))
        THEN n ELSE 0

\* The records one line of a .py file yields: the function, then the class.
PyLineRecords(line, lineno) ==
    (IF MatchPyDef(line) # 0
     THEN << [name |-> line[MatchPyDef(line)], type |-> "function", line |-> lineno] >>
     ELSE <<>>)
    \o
    (IF MatchPyClass(line) # 0
     THEN << [name |-> line[MatchPyClass(line)], type |-> "class", line |-> lineno] >>
     ELSE <<>>)

RECURSIVE PyRecordsFromUnique(_, _)
\* Faulty variant: a name that an earlier line declared is not recorded again.
PyRecordsFromUnique(lines, n) ==
    IF n > Len(lines) THEN <<>>
    ELSE SelectSeq(PyLineRecords(lines[n], n),
                   LAMBDA r : \A m \in 1..(n - 1) :
                                \A q \in 1..Len(PyLineRecords(lines[m], m)) :
                                   PyLineRecords(lines[m], m)[q].name # r.name)
         \o PyRecordsFromUnique(lines, n + 1)

RECURSIVE PyRecordsFrom(_, _)
PyRecordsFrom(lines, n) ==
    IF n > Len(lines) THEN <<>>
    ELSE PyLineRecords(lines[n], n) \o PyRecordsFrom(lines, n + 1)

\* upper() of a keyword of the TAL rule, which ignores case.
Upper(tok) ==
    CASE tok \in {"proc", "Proc"} -> "PROC"
      [] tok \in {"subproc", "Subproc"} -> "SUBPROC"
      [] OTHER -> tok

\* ^\s*(PROC|SUBPROC)\s+(\w+) , ignoring case : the position of the name, or 0
MatchTal(line) ==
    LET st == SkipWs(line, 1)
        n == SkipWs(line, st + 1)
    IN  IF /\ Upper(At(line, st)) \in {"PROC", "SUBPROC"}
           /\ At(line, st + 1) = "ws"
           /\ At(line, n) # "<end>" /\ IsWord(At(line, n))
        THEN n ELSE 0

TalLineRecords(line, lineno) ==
    IF MatchTal(line) # 0
    THEN << [name |-> line[MatchTal(line)],
             type |-> Upper(line[SkipWs(line, 1)]), line |-> lineno] >>
    ELSE <<>>

RECURSIVE NameEnd(_, _)
\* [\w-]* from position p on: the first position that holds neither a word
\* nor a hyphen.
NameEnd(line, p) ==
    IF p <= Len(line) /\ (IsWord(line[p]) \/ line[p] = "-")
    THEN NameEnd(line, p + 1) ELSE p

RECURSIVE Join(_, _, _)
\* The characters of the tokens at positions p to q - 1.
Join(line, p, q) == IF p >= q THEN "" ELSE line[p] \o Join(line, p + 1, q)

\* ^\s{7}(\w[\w-]*)\s*(SECTION)?\.  : "SECTION", "PARAGRAPH" or "" (no match);
\* the name starts in column 8 and ends where NameEnd says.
MatchCobol(line) ==
    LET e == NameEnd(line, 8)
        q == SkipWs(line, e)
    IN  IF /\ \A p \in 1..7 : At(line, p) = "ws"
           /\ At(line, 8) # "<end>" /\ IsWord(At(line, 8))
        THEN IF At(line, q) = "." THEN "PARAGRAPH"
             ELSE IF At(line, q) = "SECTION" /\ At(line, q + 1) = "."
                  THEN "SECTION" ELSE ""
        ELSE ""

CobolLineRecords(line, lineno) ==
    IF MatchCobol(line) # ""
    THEN << [name |-> Join(line, 8, NameEnd(line, 8)),
             type |-> MatchCobol(line), line |-> lineno] >>
    ELSE <<>>

\* \w+\s+(\w+)\s*\(  at position p : the position of the name, or 0
JavaTail(line, p) ==
    LET n == SkipWs(line, p + 1)
        b == SkipWs(line, n + 1)
    IN  IF /\ At(line, p) # "<end>" /\ IsWord(At(line, p))
           /\ At(line, p + 1) = "ws"
           /\ At(line, n) # "<end>" /\ IsWord(At(line, n))
           /\ At(line, b) = "("
        THEN n ELSE 0

\* ^\s*(public|private|protected)?\s*(static)?\s*\w+\s+(\w+)\s*\(  : the
\* position of the name, or 0.  The optional groups are tried present first,
\* then absent, as the regex engine backtracks.
MatchJava(line) ==
    LET st == SkipWs(line, 1)
        hasMod == At(line, st) \in {"public", "private", "protected"}
        m == SkipWs(line, st + 1)
        modStatic == IF hasMod /\ At(line, m) = "static"
                     THEN JavaTail(line, SkipWs(line, m + 1)) ELSE 0
        modOnly == IF hasMod THEN JavaTail(line, m) ELSE 0
        staticOnly == IF At(line, st) = "static" THEN JavaTail(line, m) ELSE 0
        plain == JavaTail(line, st)
    IN  IF modStatic # 0 THEN modStatic
        ELSE IF modOnly # 0 THEN modOnly
        ELSE IF staticOnly # 0 THEN staticOnly
        ELSE plain

JavaLineRecords(line, lineno) ==
    IF MatchJava(line) # 0
    THEN << [name |-> line[MatchJava(line)], type |-> "method", line |-> lineno] >>
    ELSE <<>>

\* The position after an optional (async\s+) at position p.
SkipAsync(line, p) ==
    IF At(line, p) = "async" /\ At(line, p + 1) = "ws"
    THEN SkipWs(line, p + 1) ELSE p

\* ^\s*(async\s+)?function\s+(\w+)  : the position of the name, or 0
MatchJsFunction(line) ==
    LET f == SkipAsync(line, SkipWs(line, 1))
        n == SkipWs(line, f + 1)
    IN  IF /\ At(line, f) = "function"
           /\ At(line, f + 1) = "ws"
           /\ At(line, n) # "<end>" /\ IsWord(At(line, n))
        THEN n ELSE 0

\* A word that begins with the letters of function.
StartsWithFunction(tok) == tok \in {"function", "functions"}

\* ^\s*(const|let|var)\s+(\w+)\s*=\s*(async\s+)?(\(|function)  : the position
\* of the name, or 0
MatchJsAssign(line) ==
    LET st == SkipWs(line, 1)
        n == SkipWs(line, st + 1)
        e == SkipWs(line, n + 1)
        v == SkipAsync(line, SkipWs(line, e + 1))
    IN  IF /\ At(line, st) \in {"const", "let", "var"}
           /\ At(line, st + 1) = "ws"
           /\ At(line, n) # "<end>" /\ IsWord(At(line, n))
           /\ At(line, e) = "="
           /\ (At(line, v) = "(" \/ StartsWithFunction(At(line, v)))
        THEN n ELSE 0

JsLineRecords(line, lineno) ==
    (IF MatchJsFunction(line) # 0
     THEN << [name |-> line[MatchJsFunction(line)], type |-> "function",
              line |-> lineno] >>
     ELSE <<>>)
    \o
    (IF MatchJsAssign(line) # 0
     THEN << [name |-> line[MatchJsAssign(line)], type |-> "function",
              line |-> lineno] >>
     ELSE <<>>)

\* The records of one line under the rule of the extension; no rule, no record.
LineRecords(line, lineno, ext) ==
    CASE ext \in {".tal"} -> TalLineRecords(line, lineno)
      [] ext \in {".cbl", ".cob", ".cobol", ".cpy"} -> CobolLineRecords(line, lineno)
      [] ext \in {".java"} -> JavaLineRecords(line, lineno)
      [] ext \in {".js", ".ts", ".jsx", ".tsx"} -> JsLineRecords(line, lineno)
      [] OTHER -> <<>>

RECURSIVE RecordsFrom(_, _, _)
\* for i, line in enumerate(lines): ... functions.append(...)
RecordsFrom(lines, n, ext) ==
    IF n > Len(lines) THEN <<>>
    ELSE LineRecords(lines[n], n, ext) \o RecordsFrom(lines, n + 1, ext)

\* Faulty variant: the Python rule serves every extension without a rule.
extract_functions_default_rule(content, ext) ==
    IF ext \in {".tal", ".cbl", ".cob", ".cobol", ".cpy", ".java",
                ".js", ".ts", ".jsx", ".tsx"}
    THEN RecordsFrom(content, 1, ext)
    ELSE PyRecordsFrom(content, 1)

extract_functions(content, ext) ==
    IF ext \in {".py"} THEN PyRecordsFrom(content, 1)
    ELSE RecordsFrom(content, 1, ext)

(***************************************************************************)
(* build_line_index: the lines that are not blank, with their numbers.     *)
(***************************************************************************)
IsBlank(line) == \A p \in 1..Len(line) : line[p] = "ws"

RECURSIVE LineIndexFrom(_, _)
LineIndexFrom(lines, n) ==
    IF n > Len(lines) THEN <<>>
    ELSE (IF IsBlank(lines[n]) THEN <<>>
          ELSE << [line |-> n, content |-> lines[n]] >>)
         \o LineIndexFrom(lines, n + 1)

build_line_index(content) == LineIndexFrom(content, 1)

(***************************************************************************)
(* scan_directory: os.walk top-down from the root, the excluded names      *)
(* removed from each directory's list of subdirectories before descent.    *)
(***************************************************************************)
Exists(dirpath) == dirpath \in Dirs

FilesIn(dir) == SetToSeq({p \in FilePaths : Parent(p) = dir})

SubdirsOf(dir) == SetToSeq({d \in Dirs : Len(d) > 0 /\ Parent(d) = dir})

\* Faulty variant: the list of subdirectories is left as it is.
PruneNothing(dirs) == dirs

\* dirs[:] = [d for d in dirs if d not in SKIP_DIRS]
Prune(dirs) == SelectSeq(dirs, LAMBDA d : Name(d) \notin SKIP_DIRS)

\* One file name classified: a sequence of zero or one candidate.
Classify(filepath) ==
    LET ext == Lower(Suffix(Name(filepath))) IN
    IF ext \in CODE_EXTENSIONS
    THEN << [path |-> filepath, type |-> "code", doc_type |-> "", ext |-> ext] >>
    ELSE IF ext \in DOMAIN DOC_EXTENSIONS
         THEN << [path |-> filepath, type |-> "document",
                  doc_type |-> DOC_EXTENSIONS[ext], ext |-> ext] >>
         ELSE <<>>

ClassifyAll(paths) == Flatten([n \in 1..Len(paths) |-> Classify(paths[n])], 1)

RECURSIVE Walk(_)
\* One directory: its files, then each remaining subdirectory in turn.  (The
\* one-element sets name the two listings once, as os.walk makes them once.)
Walk(dir) ==
    CHOOSE found \in
        { ClassifyAll(files) \o Flatten([n \in 1..Len(dirs) |-> Walk(dirs[n])], 1)
          : <<files, dirs>> \in {<<FilesIn(dir), Prune(SubdirsOf(dir))>>} } : TRUE

\* Faulty variant: the test for the root's existence is inverted.
scan_directory_inverted(dirpath) == IF Exists(dirpath) THEN <<>> ELSE Walk(dirpath)

\* The candidates scan_directory returns for one root.
scan_directory(dirpath) == IF ~Exists(dirpath) THEN <<>> ELSE Walk(dirpath)

CountType(files, type) == Len(SelectSeq(files, LAMBDA c : c.type = type))

\* The counters after scan_directory has counted its candidates.
ScanStats(st, files) ==
    [st EXCEPT !.code_files = @ + CountType(files, "code"),
               !.doc_files = @ + CountType(files, "document")]

(***************************************************************************)
(* build_index.  Of the index, 'created', 'files' and 'functions' are      *)
(* kept; 'stats' is the variable stats, which the index shares with the    *)
(* pass, and 'version', 'folders' and 'search_index' never change.         *)
(***************************************************************************)
EmptyMap == [p \in {} |-> TRUE]

NewStats ==
    [code_files |-> 0, doc_files |-> 0, indexed_files |-> 0,
     total_lines |-> 0, functions |-> 0, errors |-> 0]

NewIndex == [created |-> run, files |-> EmptyMap, functions |-> <<>>]

RECURSIVE RelPathLast(_, _)
\* Faulty variant: the loop over the roots does not stop at the first success.
RelPathLast(filepath, roots) ==
    IF roots = <<>> THEN filepath
    ELSE LET later == RelPathLast(filepath, Tail(roots)) IN
         IF later # filepath THEN later
         ELSE IF IsPrefix(Head(roots), filepath)
              THEN SubSeq(filepath, Len(Head(roots)) + 1, Len(filepath))
              ELSE filepath

\* The first root the path lies under gives the relative path.
RECURSIVE RelPath(_, _)
RelPath(filepath, roots) ==
    IF roots = <<>> THEN filepath
    ELSE IF IsPrefix(Head(roots), filepath)
         THEN SubSeq(filepath, Len(Head(roots)) + 1, Len(filepath))
         ELSE RelPath(filepath, Tail(roots))

\* Faulty variant: the entry records when it was made.
CodeEntryStamped(file_info, rel_path, content) ==
    [path |-> file_info.path, relative |-> rel_path, type |-> "code",
     doc_type |-> "", ext |-> file_info.ext, lines |-> Len(content),
     functions |-> extract_functions(content, file_info.ext),
     metadata |-> [key |-> "indexed_at", value |-> run],
     content |-> build_line_index(content)]

CodeEntry(file_info, rel_path, content) ==
    [path |-> file_info.path, relative |-> rel_path, type |-> "code",
     doc_type |-> "", ext |-> file_info.ext, lines |-> Len(content),
     functions |-> extract_functions(content, file_info.ext),
     metadata |-> [key |-> "", value |-> 0],
     content |-> build_line_index(content)]

DocumentEntry(file_info, rel_path, text, metadata) ==
    [path |-> file_info.path, relative |-> rel_path, type |-> "document",
     doc_type |-> file_info.doc_type, ext |-> file_info.ext, lines |-> Len(text),
     functions |-> <<>>,
     metadata |-> metadata,
     content |-> build_line_index(text)]

\* Faulty variant: the record names the file by its name, not by its path.
GlobalRecordByName(func, filepath) ==
    [name |-> func.name, type |-> func.type, file |-> <<Name(filepath)>>,
     line |-> func.line]

GlobalRecord(func, filepath) ==
    [name |-> func.name, type |-> func.type, file |-> filepath, line |-> func.line]

\* index['files'][filepath] = entry
Store(files, filepath, entry) ==
    [p \in DOMAIN files \cup {filepath} |-> IF p = filepath THEN entry ELSE files[p]]

\* The counters after a code entry, and after a document entry, was stored.
CountCode(st, entry) ==
    [st EXCEPT !.total_lines = @ + entry.lines,
               !.functions = @ + Len(entry.functions),
               !.indexed_files = @ + 1]

\* Faulty variant: the document is stored but not counted as indexed.
CountDocumentUncounted(st, entry) ==
    [st EXCEPT !.total_lines = @ + entry.lines]

CountDocument(st, entry) ==
    [st EXCEPT !.total_lines = @ + entry.lines,
               !.indexed_files = @ + 1]

\* Faulty variant: the failing candidate is dropped without being counted.
CountErrorForgotten(st) == st

CountError(st) == [st EXCEPT !.errors = @ + 1]

\* What became of a candidate, for the record of attempts.
Attempt(file_info, outcome) ==
    [path |-> file_info.path, type |-> file_info.type, outcome |-> outcome,
     no_capability |-> /\ file_info.type = "document"
                       /\ ~CapabilityAvailable(file_info.doc_type)]

\* json.dump(index, f, indent=2), reduced to its line structure: a line for
\* the opening brace, one per stored entry, one per global record, one for
\* the closing brace.
Serialize(idx) ==
    << <<"{">> >>
    \o [n \in 1..Cardinality(DOMAIN idx.files) |-> <<"entry">>]
    \o [n \in 1..Len(idx.functions) |-> <<"function">>]
    \o << <<"}">> >>

----------------------------------------------------------------------------
OutputPaths == {W \o <<".astra-index.json">>, Outside \o <<".astra-index.json">>}

FolderLists == UNION { [1..n -> Roots] : n \in 1..MaxRoots }

Init ==
    /\ fs \in Workspaces
    /\ folders \in FolderLists
    /\ output_path \in OutputPaths
    /\ argv = {}
    /\ PARSERS_AVAILABLE \in [pdf : BOOLEAN, excel : BOOLEAN, word : BOOLEAN,
                              pdfplumber : BOOLEAN]
    /\ outfile = "absent"
    /\ out_text = <<>>
    /\ pc = "scan"
    /\ scanned = 0
    /\ all_files = <<>>
    /\ i = 0
    /\ k = 0
    /\ index = [created |-> 0, files |-> EmptyMap, functions |-> <<>>]
    /\ stats = NewStats
    /\ opened = {}
    /\ attempts = <<>>
    /\ exit_code = "running"
    /\ run = 1
    /\ start_view = [p \in {q \in DOMAIN fs : Parent(q) \in Dirs} |-> fs[p]]
    /\ prev = <<>>

(***************************************************************************)
(* Source texts for the extractor: every well-formed line of at most       *)
(* MaxTokens tokens over the alphabet of the Python rule, as one-line      *)
(* files, and every text of at most MaxLines lines drawn from sample lines *)
(* of each language.  A line is well formed when no two words are adjacent *)
(* (two adjacent words would be one word).                                 *)
(***************************************************************************)
PyAlphabet == {"ws", "def", "class", "f", "(", ":"}

WellFormed(line) ==
    \A p \in 1..(Len(line) - 1) : ~(IsWord(line[p]) /\ IsWord(line[p + 1]))

PyLines ==
    {line \in UNION { [1..m -> PyAlphabet] : m \in 0..MaxTokens } : WellFormed(line)}

Indent7 == <<"ws", "ws", "ws", "ws", "ws", "ws", "ws">>

SampleLines ==
    { <<>>,
      <<"def", "ws", "handler", "(", "x", ")", ":">>,
      <<"class", "ws", "Handler", ":">>,
      <<"ws", "def", "ws", "run", "ws", "(", ")", ":">>,
      <<"PROC", "ws", "main">>,
      <<"ws", "subproc", "ws", "ws", "helper", ";">>,
      <<"PROCX", "ws", "main">>,
      Indent7 \o <<"MAIN", "-", "PARA", ".">>,
      Indent7 \o <<"INIT", "ws", "SECTION", ".">>,
      Indent7 \o <<"ws", "MOVE", ".">>,
      <<"public", "ws", "static", "ws", "void", "ws", "main", "(">>,
      <<"int", "ws", "main", "(", ")">>,
      <<"async", "ws", "function", "ws", "load">>,
      <<"const", "ws", "load", "ws", "=", "ws", "async", "ws", "(">>,
      <<"let", "ws", "main", "=", "functions">>,
      <<"var", "ws", "x", "ws", "=", "ws", "1">> }

SampleTexts == UNION { [1..m -> SampleLines] : m \in 1..MaxLines }

SourceNames ==
    { "a.py", "a.tal", "a.cbl", "a.cpy", "a.java", "a.js", "a.tsx",
      "a.c", "a.go", "a.pli", "a.sql", "a.md" }

SourceWorkspaces ==
    { [p \in {W \o <<name>>} |-> TextFile(TRUE, "ascii", text)]
        : name \in SourceNames, text \in SampleTexts }
    \cup { [p \in {W \o <<name>>} |-> TextFile(TRUE, "ascii", <<line>>)]
             : name \in {"a.py", "a.c"}, line \in PyLines }

\* A run over one root that holds one source file.
InitExtract ==
    /\ fs \in SourceWorkspaces
    /\ folders = <<W>>
    /\ output_path = Outside \o <<".astra-index.json">>
    /\ argv = {}
    /\ PARSERS_AVAILABLE = [pdf |-> FALSE, excel |-> FALSE, word |-> FALSE,
                            pdfplumber |-> FALSE]
    /\ outfile = "absent"
    /\ out_text = <<>>
    /\ pc = "scan"
    /\ scanned = 0
    /\ all_files = <<>>
    /\ i = 0
    /\ k = 0
    /\ index = [created |-> 0, files |-> EmptyMap, functions |-> <<>>]
    /\ stats = NewStats
    /\ opened = {}
    /\ attempts = <<>>
    /\ exit_code = "running"
    /\ run = 1
    /\ start_view = fs
    /\ prev = <<>>

\* The command as typed: main has yet to parse its arguments.
CommandLines == { {}, {"--verbose"}, {"--skip-docs"}, {"--docs-keywords-only"} }

InitCli ==
    /\ fs \in Workspaces
    /\ folders \in FolderLists
    /\ output_path \in OutputPaths
    /\ argv \in CommandLines
    /\ PARSERS_AVAILABLE \in [pdf : BOOLEAN, excel : BOOLEAN, word : BOOLEAN,
                              pdfplumber : BOOLEAN]
    /\ outfile = "absent"
    /\ out_text = <<>>
    /\ pc = "main"
    /\ scanned = 0
    /\ all_files = <<>>
    /\ i = 0
    /\ k = 0
    /\ index = [created |-> 0, files |-> EmptyMap, functions |-> <<>>]
    /\ stats = NewStats
    /\ opened = {}
    /\ attempts = <<>>
    /\ exit_code = "running"
    /\ run = 1
    /\ start_view = [p \in {q \in DOMAIN fs : Parent(q) \in Dirs} |-> fs[p]]
    /\ prev = <<>>

inputs == <<fs, folders, output_path, argv, PARSERS_AVAILABLE>>

\* The options the parser declares besides the folders and --output.
DeclaredOptions == {"--verbose"}

\* args = parser.parse_args(): an option that was not declared ends the
\* process with a usage message and status 2, before build_index is called.
ParseArgs ==
    /\ pc = "main"
    /\ IF argv \subseteq DeclaredOptions
       THEN /\ pc' = "scan"
            /\ UNCHANGED exit_code
       ELSE /\ pc' = "usage"
            /\ exit_code' = "2"
    /\ UNCHANGED <<inputs, outfile, out_text, scanned, all_files, i, k, index, stats,
                   opened, attempts, run, start_view, prev>>

\* for folder in folders: all_files.extend(scan_directory(folder, stats))
ScanFolder ==
    /\ pc = "scan"
    /\ scanned < Len(folders)
    /\ \E found \in {scan_directory(folders[scanned + 1])} :
         /\ all_files' = all_files \o found
         /\ stats' = ScanStats(stats, found)
    /\ scanned' = scanned + 1
    /\ UNCHANGED <<inputs, outfile, out_text, pc, i, k, index, opened, attempts,
                   exit_code, run, start_view, prev>>

\* index = {...}
BeginIndex ==
    /\ pc = "scan"
    /\ scanned = Len(folders)
    /\ index' = NewIndex
    /\ pc' = "index"
    /\ UNCHANGED <<inputs, outfile, out_text, scanned, all_files, i, k, stats,
                   opened, attempts, exit_code, run, start_view, prev>>

\* The candidate is finished: on to the next one.
NextCandidate ==
    /\ i' = i + 1
    /\ k' = 0
    /\ pc' = "index"

\* Faulty variant: a failing candidate ends the pass.
FailCandidateAborts(file_info) ==
    /\ stats' = CountError(stats)
    /\ attempts' = Append(attempts, Attempt(file_info, "error"))
    /\ pc' = "failed"
    /\ UNCHANGED <<i, k, index>>

\* A candidate that fails: the error is counted and nothing else changes.
FailCandidate(file_info) ==
    /\ stats' = CountError(stats)
    /\ attempts' = Append(attempts, Attempt(file_info, "error"))
    /\ NextCandidate
    /\ UNCHANGED index

ProcessCode(file_info) ==
    \E got \in {read_text_file(File(file_info.path))} :
    \E entry \in {CodeEntry(file_info, RelPath(file_info.path, folders), got.text)} :
        /\ opened' = opened \cup {file_info.path}
        /\ IF got.kind # "text"
           THEN FailCandidate(file_info)
           ELSE /\ index' = [index EXCEPT !.files = Store(@, file_info.path, entry)]
                /\ stats' = CountCode(stats, entry)
                /\ attempts' = Append(attempts, Attempt(file_info, "indexed"))
                /\ IF entry.functions = <<>>
                   THEN NextCandidate
                   ELSE /\ pc' = "functions"
                        /\ k' = 0
                        /\ i' = i

ProcessDocument(file_info) ==
    \E got \in {parse_document(File(file_info.path), file_info.doc_type)} :
    \E entry \in {DocumentEntry(file_info, RelPath(file_info.path, folders),
                                got.text, got.metadata)} :
        /\ opened' = IF got.io THEN opened \cup {file_info.path} ELSE opened
        /\ IF ~got.ok
           THEN FailCandidate(file_info)
           ELSE /\ index' = [index EXCEPT !.files = Store(@, file_info.path, entry)]
                /\ stats' = CountDocument(stats, entry)
                /\ attempts' = Append(attempts, Attempt(file_info, "indexed"))
                /\ NextCandidate

\* One iteration of the loop over all_files, up to the copy of the records.
ProcessFile ==
    /\ pc = "index"
    /\ i < Len(all_files)
    /\ \E file_info \in {all_files[i + 1]} :
         IF file_info.type = "code"
         THEN ProcessCode(file_info)
         ELSE ProcessDocument(file_info)
    /\ UNCHANGED <<inputs, outfile, out_text, scanned, all_files, exit_code, run,
                   start_view, prev>>

\* Faulty variant: the record is put at the front of the global list.
AppendFunctionFirst ==
    /\ pc = "functions"
    /\ LET filepath == all_files[i + 1].path
           functions == index.files[filepath].functions
       IN  /\ k < Len(functions)
           /\ index' = [index EXCEPT !.functions =
                            <<GlobalRecord(functions[k + 1], filepath)>> \o @]
           /\ IF k + 1 = Len(functions)
              THEN NextCandidate
              ELSE /\ k' = k + 1
                   /\ UNCHANGED <<i, pc>>
    /\ UNCHANGED <<inputs, outfile, out_text, scanned, all_files, stats, opened,
                   attempts, exit_code, run, start_view, prev>>

\* for func in functions: index['functions'].append({...})
AppendFunction ==
    /\ pc = "functions"
    /\ LET filepath == all_files[i + 1].path
           functions == index.files[filepath].functions
       IN  /\ k < Len(functions)
           /\ index' = [index EXCEPT !.functions =
                            Append(@, GlobalRecord(functions[k + 1], filepath))]
           /\ IF k + 1 = Len(functions)
              THEN NextCandidate
              ELSE /\ k' = k + 1
                   /\ UNCHANGED <<i, pc>>
    /\ UNCHANGED <<inputs, outfile, out_text, scanned, all_files, stats, opened,
                   attempts, exit_code, run, start_view, prev>>

\* An exception that nothing catches: the process exits with status 1.
Uncaught ==
    /\ pc' = "failed"
    /\ exit_code' = "1"

\* with open(output_path, 'w', encoding='utf-8') as f: creates or truncates
\* the file, or raises.
OpenOutput ==
    /\ pc = "index"
    /\ i = Len(all_files)
    /\ \E ok \in BOOLEAN :
         IF ok
         THEN /\ outfile' = "empty"
              /\ out_text' = << <<>> >>
              /\ pc' = "dump"
              /\ UNCHANGED exit_code
         ELSE /\ Uncaught
              /\ UNCHANGED <<outfile, out_text>>
    /\ UNCHANGED <<inputs, scanned, all_files, i, k, index, stats, opened, attempts,
                   run, start_view, prev>>

\* json.dump writes the text piece by piece; a write can raise (the disk is
\* full), and the with block then closes the file as it is.
DumpIndex ==
    /\ pc = "dump"
    /\ \E ok \in BOOLEAN :
         IF ~ok
         THEN /\ Uncaught
              /\ UNCHANGED <<outfile, out_text>>
         ELSE IF outfile = "empty"
              THEN /\ outfile' = "partial"
                   /\ out_text' = << Head(Serialize(index)) >>
                   /\ UNCHANGED <<pc, exit_code>>
              ELSE /\ outfile' = "complete"
                   /\ out_text' = Serialize(index)
                   /\ pc' = "done"
                   /\ exit_code' = "0"
    /\ UNCHANGED <<inputs, scanned, all_files, i, k, index, stats, opened, attempts,
                   run, start_view, prev>>

\* The process is terminated from outside: its memory is gone, the files stay.
Terminate ==
    /\ pc \notin {"done", "failed", "killed"}
    /\ pc' = "killed"
    /\ exit_code' = "killed"
    /\ scanned' = 0
    /\ all_files' = <<>>
    /\ i' = 0
    /\ k' = 0
    /\ index' = [created |-> 0, files |-> EmptyMap, functions |-> <<>>]
    /\ stats' = NewStats
    /\ opened' = {}
    /\ attempts' = <<>>
    /\ UNCHANGED <<inputs, outfile, out_text, run, start_view, prev>>

\* The same command is run again after a run that completed.
Restart ==
    /\ pc = "done"
    /\ run < MaxRuns
    /\ prev' = Append(prev, [view |-> start_view, files |-> index.files,
                             functions |-> index.functions,
                             created |-> index.created])
    /\ run' = run + 1
    /\ start_view' = WorkspaceView
    /\ pc' = "scan"
    /\ exit_code' = "running"
    /\ scanned' = 0
    /\ all_files' = <<>>
    /\ i' = 0
    /\ k' = 0
    /\ index' = [created |-> 0, files |-> EmptyMap, functions |-> <<>>]
    /\ stats' = NewStats
    /\ opened' = {}
    /\ attempts' = <<>>
    /\ UNCHANGED <<inputs, outfile, out_text>>

Run == ScanFolder \/ BeginIndex \/ ProcessFile \/ AppendFunction \/ OpenOutput
       \/ DumpIndex

Next == Run \/ Terminate

Spec == Init /\ [][Next]_vars

\* Repeated runs of the same command.
NextRuns == Run \/ Restart

RunsSpec == Init /\ [][NextRuns]_vars

\* A run that nothing terminates: the interpreter always takes its next step.
FairSpec == Init /\ [][Run]_vars /\ WF_vars(Run)

\* Runs over the source texts, which apply extract_functions to each of them.
ExtractSpec == InitExtract /\ [][Run]_vars

\* Runs from the command line, whatever options it carries.
NextCli == ParseArgs \/ Run

CliSpec == InitCli /\ [][NextCli]_vars

----------------------------------------------------------------------------
(***************************************************************************)
(* Notions the properties share.                                           *)
(***************************************************************************)
RECURSIVE SumLines(_, _)
\* The sum of the 'lines' field over the entries stored under the keys S.
SumLines(files, S) ==
    IF S = {} THEN 0
    ELSE LET p == CHOOSE q \in S : TRUE
         IN  files[p].lines + SumLines(files, S \ {p})

\* Every candidate has been processed.
PassOver == (pc = "index" /\ i = Len(all_files)) \/ pc \in {"dump", "done"}

\* The pass is at a candidate and the step taken is the program's own.
AtCandidate == pc = "index" /\ i < Len(all_files) /\ pc' # "killed"

\* The extraction step of a candidate fails: read_text_file raises or returns
\* None, or parse_document returns no text.
ExtractionFails(file_info) ==
    IF file_info.type = "code"
    THEN read_text_file(File(file_info.path)).kind # "text"
    ELSE ~parse_document(File(file_info.path), file_info.doc_type).ok

\* No directory name of the path, from position first on, is excluded.
NoExcludedFrom(p, first) == \A n \in first..(Len(p) - 1) : p[n] \notin SKIP_DIRS

\* The file lies under the existing root with no excluded name in between.
ReachableFrom(root, p) ==
    /\ Exists(root)
    /\ IsPrefix(root, Parent(p))
    /\ NoExcludedFrom(p, Len(root) + 1)

\* The files of the workspace, as the run found it, that a scan of the root
\* is to yield.
VisibleFrom(root) ==
    {p \in DOMAIN start_view : ReachableFrom(root, p) /\ Classify(p) # <<>>}

CandidatePaths == {all_files[n].path : n \in 1..Len(all_files)}

(***************************************************************************)
(* C1: once all candidates are processed, stats.total_lines is the sum of  *)
(* 'lines' over the entries stored in the index, whatever the roots are    *)
(* (the same folder twice and nested roots included).                      *)
(***************************************************************************)
C1_TotalLinesIsSumOfStored ==
    PassOver => stats.total_lines = SumLines(index.files, DOMAIN index.files)

(***************************************************************************)
(* C2: at every point of the pass, every record of the global functions    *)
(* list names a file that is a key of files, and that file's own list      *)
(* holds a record with the same name and the same line.                    *)
(***************************************************************************)
C2_GlobalRecordsOwned ==
    \A n \in 1..Len(index.functions) :
        LET rec == index.functions[n] IN
        /\ rec.file \in DOMAIN index.files
        /\ \E m \in 1..Len(index.files[rec.file].functions) :
              LET own == index.files[rec.file].functions[m] IN
              own.name = rec.name /\ own.line = rec.line

\* A file found twice is in the middle of its second copy.
C2_Witness ==
    /\ pc = "functions"
    /\ k > 0
    /\ \E n \in 1..i : all_files[n].path = all_files[i + 1].path

(***************************************************************************)
(* C3: processing a candidate whose extraction fails adds exactly one to   *)
(* stats.errors and adds no entry, no global record, no lines and no       *)
(* functions.                                                              *)
(***************************************************************************)
C3_FailureOnlyCounted ==
    [][ (AtCandidate /\ ExtractionFails(all_files[i + 1]))
        => /\ stats'.errors = stats.errors + 1
           /\ index'.files = index.files
           /\ index'.functions = index.functions
           /\ stats'.total_lines = stats.total_lines
           /\ stats'.functions = stats.functions ]_vars

\* A failure was counted after an entry with records had been stored.
C3_Witness ==
    /\ stats.errors > 0
    /\ index.functions # <<>>
    /\ \E n \in 1..Len(attempts) : attempts[n].outcome = "error"

(***************************************************************************)
(* C4: a document whose parser capability is missing is skipped before any *)
(* I/O on it, and stats.errors is not incremented for it.                  *)
(***************************************************************************)
C4_MissingCapabilityNotAnError ==
    [][ (/\ AtCandidate
         /\ all_files[i + 1].type = "document"
         /\ ~CapabilityAvailable(all_files[i + 1].doc_type))
        => /\ opened' = opened
           /\ stats'.errors = stats.errors ]_vars

(***************************************************************************)
(* C5: when the write fails (on open or part-way) or the run is            *)
(* terminated, no file exists at the output path afterwards and the run    *)
(* does not report success.                                                *)
(***************************************************************************)
C5_AllOrNothing ==
    pc \in {"failed", "killed"} => (outfile = "absent" /\ exit_code # "0")

(***************************************************************************)
(* C6, as claimed: no indexed file has an excluded directory name anywhere *)
(* in its path, the root itself and its ancestors included.                *)
(***************************************************************************)
C6_NoExcludedNameInPath ==
    \A p \in DOMAIN index.files : NoExcludedFrom(p, 1)

(***************************************************************************)
(* C6, amended: exclusion is relative to the root being scanned.  Every    *)
(* file that is a candidate, is read or parsed, or is present in the index *)
(* lies under an existing root folder with no excluded directory name      *)
(* strictly between that root and the file; nothing inside an excluded     *)
(* subdirectory of a root is visited from that root.                       *)
(***************************************************************************)
C6_ExcludedBelowRoot ==
    \A p \in (DOMAIN index.files) \cup CandidatePaths \cup opened :
        \E n \in 1..Len(folders) : ReachableFrom(folders[n], p)

\* The root has an excluded subdirectory holding a file that qualifies, the
\* run is complete, and the index holds other files but not that one.
C6_Witness ==
    /\ pc = "done"
    /\ \A n \in 1..Len(folders) : folders[n] = W
    /\ DOMAIN index.files # {}
    /\ \E p \in DOMAIN fs :
          /\ Parent(p) = WBuild
          /\ Classify(p) # <<>>
          /\ p \notin DOMAIN index.files
          /\ p \notin opened

(***************************************************************************)
(* C7: a root folder that does not exist contributes no candidate and does *)
(* not stop the scan: the candidates are exactly those of the existing     *)
(* roots; when every root is missing the index is still written, with no   *)
(* file and every counter at zero.                                         *)
(***************************************************************************)
C7_MissingRootContributesNothing ==
    pc \in {"index", "functions", "dump", "done", "failed"} =>
        /\ Len(all_files) =
              SumSeq([n \in 1..Len(folders) |->
                        IF Exists(folders[n])
                        THEN Cardinality(VisibleFrom(folders[n])) ELSE 0])
        /\ \A p \in CandidatePaths :
              \E n \in 1..Len(folders) : Exists(folders[n]) /\ IsPrefix(folders[n], p)
        /\ (\A n \in 1..Len(folders) : ~Exists(folders[n]))
              => /\ all_files = <<>>
                 /\ index.files = EmptyMap
                 /\ index.functions = <<>>
                 /\ stats = NewStats
                 /\ pc \in {"index", "dump", "done", "failed"}
                 /\ (pc = "done" => outfile = "complete")

\* A missing root came first, and the run went on to index the next root.
C7_Witness ==
    /\ pc = "done"
    /\ Len(folders) > 1
    /\ ~Exists(folders[1])
    /\ DOMAIN index.files # {}

(***************************************************************************)
(* C8: failures of single candidates are isolated.  In a run that nothing  *)
(* terminates, whatever candidates fail, the run comes to its end; when it *)
(* is at the serialization step every candidate has been processed, in     *)
(* scan order; it ends with status 0 when the write succeeds, and only a   *)
(* failure to write the artifact ends it with a failure.                   *)
(***************************************************************************)
C8_FailuresIsolated ==
    /\ <>(pc \in {"done", "failed"})
    /\ [](pc \in {"dump", "done", "failed"}
            => /\ i = Len(all_files)
               /\ Len(attempts) = Len(all_files)
               /\ \A n \in 1..Len(all_files) : attempts[n].path = all_files[n].path)
    /\ [](pc = "done" => (exit_code = "0" /\ outfile = "complete"))
    /\ [][exit_code' = "1" => (PassOver /\ outfile' # "complete")]_vars

\* The run completed with status 0 although a candidate failed before the
\* last one, which was indexed.
C8_Witness ==
    /\ pc = "done"
    /\ exit_code = "0"
    /\ Len(attempts) > 1
    /\ attempts[1].outcome = "error"
    /\ attempts[Len(attempts)].outcome = "indexed"

Skipped == Len(SelectSeq(attempts, LAMBDA a : a.no_capability))

C10_AttemptsAccounted ==
    /\ stats.errors + stats.code_files + stats.doc_files >= Len(attempts) - Skipped
    /\ stats.errors + stats.indexed_files <= Len(attempts) - Skipped

\* The inequality of C10 alone, which the code satisfies.
C10_LowerBoundOnly ==
    stats.errors + stats.code_files + stats.doc_files >= Len(attempts) - Skipped

(***************************************************************************)
(* Notions of the properties of the extractor.                             *)
(***************************************************************************)
\* Whitespace, and nothing else, at the positions from a to b.
BlankRun(line, a, b) == \A p \in a..b : line[p] = "ws"

\* The names the line declares by starting, after optional indentation, with
\* def, whitespace, a name and (after optional blanks) an opening parenthesis.
DefNames(line) ==
    { line[n] : n \in { n \in 1..Len(line) :
        /\ IsWord(line[n])
        /\ \E d \in 1..(n - 2) :
              /\ BlankRun(line, 1, d - 1)
              /\ line[d] = "def"
              /\ BlankRun(line, d + 1, n - 1)
        /\ \E b \in (n + 1)..Len(line) :
              /\ BlankRun(line, n + 1, b - 1)
              /\ line[b] = "(" } }

\* The names the line declares by starting, after optional indentation, with
\* class, whitespace and a name.
ClassNames(line) ==
    { line[n] : n \in { n \in 1..Len(line) :
        /\ IsWord(line[n])
        /\ \E c \in 1..(n - 2) :
              /\ BlankRun(line, 1, c - 1)
              /\ line[c] = "class"
              /\ BlankRun(line, c + 1, n - 1) } }

\* The records of the list that carry the line number, in their order.
RecordsAt(recs, n) == SelectSeq(recs, LAMBDA r : r.line = n)

\* The same records with their line numbers moved by delta.
Shifted(recs, delta) ==
    [m \in 1..Len(recs) |-> [recs[m] EXCEPT !.line = @ + delta]]

\* The stored code entries, each with the text it was made from.
CodeEntries == {p \in DOMAIN index.files : index.files[p].type = "code"}

(***************************************************************************)
(* C11: under the Python rule a line that starts, after optional           *)
(* indentation, with def, a name and an opening parenthesis yields exactly *)
(* one record of type function with that name and the line's 1-based       *)
(* number; a line that starts with class and a name yields exactly one     *)
(* record of type class; every other line yields none.  def handler(x):    *)
(* followed by class Handler: yields exactly handler@1 then Handler@2.     *)
(***************************************************************************)
C11_PythonRule ==
    \A p \in CodeEntries :
        LET text == File(p).text
            recs == index.files[p].functions
        IN  index.files[p].ext = ".py" =>
              /\ \A m \in 1..Len(recs) : recs[m].line \in 1..Len(text)
              /\ \A n \in 1..Len(text) :
                    LET fs_n == SelectSeq(RecordsAt(recs, n), LAMBDA r : r.type = "function")
                        cs_n == SelectSeq(RecordsAt(recs, n), LAMBDA r : r.type = "class")
                    IN  /\ Len(fs_n) + Len(cs_n) = Len(RecordsAt(recs, n))
                        /\ Len(fs_n) = (IF DefNames(text[n]) = {} THEN 0 ELSE 1)
                        /\ Len(cs_n) = (IF ClassNames(text[n]) = {} THEN 0 ELSE 1)
                        /\ \A m \in 1..Len(fs_n) : DefNames(text[n]) = {fs_n[m].name}
                        /\ \A m \in 1..Len(cs_n) : ClassNames(text[n]) = {cs_n[m].name}
              /\ text = << <<"def", "ws", "handler", "(", "x", ")", ":">>,
                           <<"class", "ws", "Handler", ":">> >>
                    => recs = << [name |-> "handler", type |-> "function", line |-> 1],
                                 [name |-> "Handler", type |-> "class", line |-> 2] >>

\* The two-line example has been indexed.
C11_Witness ==
    /\ pc = "done"
    /\ \E p \in CodeEntries :
          /\ index.files[p].ext = ".py"
          /\ File(p).text = << <<"def", "ws", "handler", "(", "x", ")", ":">>,
                               <<"class", "ws", "Handler", ":">> >>
          /\ Len(index.files[p].functions) = 2

(***************************************************************************)
(* C12: whatever the extension and the text, the records are in order of   *)
(* appearance (line numbers never decrease along the list and lie between  *)
(* 1 and the number of lines), and nothing is deduplicated: each line      *)
(* yields what it yields on its own, so two lines with the same text yield *)
(* the same records and a name declared on k lines yields k records.       *)
(***************************************************************************)
C12_AppearanceOrderNoDedup ==
    \A p \in CodeEntries :
        LET text == File(p).text
            recs == index.files[p].functions
            ext  == index.files[p].ext
        IN  /\ \A m \in 1..Len(recs) : recs[m].line \in 1..Len(text)
            /\ \A m \in 1..(Len(recs) - 1) : recs[m].line <= recs[m + 1].line
            /\ \A n \in 1..Len(text) :
                  RecordsAt(recs, n) = Shifted(extract_functions(<<text[n]>>, ext), n - 1)
            /\ \A n1, n2 \in 1..Len(text) :
                  text[n1] = text[n2]
                     => Shifted(RecordsAt(recs, n1), n2 - n1) = RecordsAt(recs, n2)

\* A name declared on two lines was recorded twice.
C12_Witness ==
    /\ pc = "done"
    /\ \E p \in CodeEntries :
          LET recs == index.files[p].functions IN
          /\ Len(recs) = 2
          /\ recs[1].name = recs[2].name
          /\ recs[1].line < recs[2].line

(***************************************************************************)
(* C13: for an extension without a rule (any indexed code extension other  *)
(* than .tal, .cbl, .cob, .cobol, .cpy, .java, .py, .js, .ts, .jsx, .tsx)  *)
(* the extractor returns the empty list for any text, and the file is      *)
(* indexed all the same, with its line count and no symbols.               *)
(***************************************************************************)
RuledExtensions ==
    {".tal", ".cbl", ".cob", ".cobol", ".cpy", ".java", ".py",
     ".js", ".ts", ".jsx", ".tsx"}

C13_NoRuleNoSymbols ==
    /\ (pc = "scan" /\ scanned = 0) =>
          \A p \in DOMAIN fs : \A e \in CODE_EXTENSIONS \ RuledExtensions :
             extract_functions(fs[p].text, e) = <<>>
    /\ \A n \in 1..Len(attempts) :
          LET p == attempts[n].path IN
          (attempts[n].type = "code" /\ all_files[n].ext \notin RuledExtensions)
             => /\ attempts[n].outcome = "indexed"
                /\ p \in DOMAIN index.files
                /\ index.files[p].functions = <<>>
                /\ index.files[p].lines = Len(File(p).text)
                /\ \A m \in 1..Len(index.functions) : index.functions[m].file # p

\* A file without a rule whose text declares a Python function was indexed.
C13_Witness ==
    /\ pc = "done"
    /\ \E p \in CodeEntries :
          /\ index.files[p].ext \in {".c", ".go", ".pli", ".sql", ".md"}
          /\ DefNames(File(p).text[1]) # {}
          /\ index.files[p].lines = 2
          /\ index.files[p].functions = <<>>
          /\ stats.functions = 0

(***************************************************************************)
(* C14: the relative path stored for a candidate is its path relative to   *)
(* the first root, in the order the roots were given, that the path lies   *)
(* under, also when the file was found while a later root was scanned; a   *)
(* path that lies under no root is kept as it is.                          *)
(***************************************************************************)
C14_RelativeToFirstRoot ==
    /\ \A p \in DOMAIN index.files :
          \E n \in 1..Len(folders) :
             /\ IsPrefix(folders[n], p)
             /\ \A m \in 1..(n - 1) : ~IsPrefix(folders[m], p)
             /\ folders[n] \o index.files[p].relative = p
    /\ \A q \in DOMAIN fs :
          (\A n \in 1..Len(folders) : ~IsPrefix(folders[n], q))
             => RelPath(q, folders) = q

\* A file of the second root, found again while that root was scanned, is
\* stored relative to the first root, which contains the second.
C14_Witness ==
    /\ pc = "done"
    /\ folders = <<W, WSub>>
    /\ \E p \in DOMAIN index.files :
          /\ IsPrefix(WSub, p)
          /\ index.files[p].relative = SubSeq(p, Len(W) + 1, Len(p))
          /\ Len(attempts) > 1
          /\ attempts[Len(attempts)].path = p
          /\ attempts[Len(attempts)].outcome = "indexed"
          /\ \E n \in 1..(Len(attempts) - 1) : attempts[n].path = p

(***************************************************************************)
(* C15: a code candidate is read with the first encoding, in the order     *)
(* UTF-8, Latin-1, CP-1252, ASCII, that decodes its bytes without error,   *)
(* and is then indexed; a candidate that no encoding of the list can read  *)
(* is counted in stats.errors and has no entry.                            *)
(***************************************************************************)
C15_Order == <<"utf-8", "latin-1", "cp1252", "ascii">>

C15_FirstEncodingThatDecodes ==
    /\ \A n \in 1..Len(attempts) :
          LET p == attempts[n].path
              f == File(p)
              readable == {m \in 1..Len(C15_Order) :
                              f.openable /\ Decodes(C15_Order[m], f.bytes)}
          IN  attempts[n].type = "code" =>
                IF readable # {}
                THEN /\ \E m \in readable :
                           /\ \A l \in readable : m <= l
                           /\ read_text_file(f).kind = "text"
                           /\ read_text_file(f).encoding = C15_Order[m]
                     /\ attempts[n].outcome = "indexed"
                     /\ p \in DOMAIN index.files
                     /\ index.files[p].lines = Len(f.text)
                ELSE /\ attempts[n].outcome = "error"
                     /\ p \notin DOMAIN index.files
    /\ stats.errors = Len(SelectSeq(attempts, LAMBDA a : a.outcome = "error"))

\* A file that is not valid UTF-8 was read with the second encoding and
\* indexed.
C15_Witness ==
    /\ pc = "done"
    /\ \E n \in 1..Len(attempts) :
          /\ attempts[n].type = "code"
          /\ ~Decodes("utf-8", File(attempts[n].path).bytes)
          /\ read_text_file(File(attempts[n].path)).encoding = "latin-1"
          /\ attempts[n].path \in DOMAIN index.files

(***************************************************************************)
(* C16: the global functions list follows scan order.  The candidates are  *)
(* processed in the order of the scan (the roots in the order given, each  *)
(* in traversal order), and the global list is, block after block in that  *)
(* order, the local list of each indexed code candidate in its own order:  *)
(* every record of an earlier candidate precedes every record of a later   *)
(* one.                                                                    *)
(***************************************************************************)
\* The records the n-th candidate contributes: its local list, labelled with
\* its path.
BlockOf(n) ==
    IF attempts[n].type = "code" /\ attempts[n].outcome = "indexed"
    THEN LET local == index.files[attempts[n].path].functions IN
         [m \in 1..Len(local) |->
             [name |-> local[m].name, type |-> local[m].type,
              file |-> attempts[n].path, line |-> local[m].line]]
    ELSE <<>>

\* The number of candidates the n-th root yields, and of those before it.
YieldOf(n) == IF Exists(folders[n]) THEN Cardinality(VisibleFrom(folders[n])) ELSE 0

YieldBefore(n) == SumSeq([m \in 1..(n - 1) |-> YieldOf(m)])

C16_GlobalListInScanOrder ==
    /\ pc \in {"index", "functions", "dump", "done", "failed"}
          => \A n \in 1..Len(folders) :
                \A x \in (YieldBefore(n) + 1)..(YieldBefore(n) + YieldOf(n)) :
                   /\ all_files[x].path \in VisibleFrom(folders[n])
                   /\ \A y \in (x + 1)..(YieldBefore(n) + YieldOf(n)) :
                         Len(all_files[x].path) <= Len(all_files[y].path)
    /\ \A n \in 1..Len(attempts) : attempts[n].path = all_files[n].path
    /\ pc # "functions"
          => index.functions = Flatten([n \in 1..Len(attempts) |-> BlockOf(n)], 1)
    /\ pc = "functions"
          => index.functions =
                Flatten([n \in 1..i |-> BlockOf(n)], 1) \o SubSeq(BlockOf(i + 1), 1, k)

\* Two candidates with records were indexed one after the other.
C16_Witness ==
    /\ pc = "done"
    /\ Len(index.functions) > 2
    /\ index.functions[1].file # index.functions[Len(index.functions)].file
    /\ index.functions[1].line < index.functions[2].line

(***************************************************************************)
(* Notions of the properties of the command-line options.                  *)
(***************************************************************************)
\* The run has come to its end other than by a failure to write.
RunEnded == pc \in {"done", "usage"}

\* The code files a scan of the given roots is to yield and that can be read.
ReadableCode ==
    {p \in DOMAIN start_view :
        /\ \E n \in 1..Len(folders) : p \in VisibleFrom(folders[n])
        /\ Classify(p)[1].type = "code"
        /\ start_view[p].openable}

DocumentEntries == {p \in DOMAIN index.files : index.files[p].type = "document"}

(***************************************************************************)
(* C17: in a run started with --skip-docs no document entry is created, no *)
(* document parser is called, stats.doc_files is 0, and the code files of  *)
(* the same folders are indexed as usual.                                  *)
(***************************************************************************)
C17_SkipDocs ==
    "--skip-docs" \in argv =>
        /\ DocumentEntries = {}
        /\ \A p \in opened : Classify(p)[1].type # "document"
        /\ stats.doc_files = 0
        /\ RunEnded => \A p \in ReadableCode : p \in DOMAIN index.files

(***************************************************************************)
(* C18: in a run started with --docs-keywords-only no document entry       *)
(* carries the extracted text; without the option every document entry     *)
(* carries the text that was extracted (its lines with their numbers, and  *)
(* its line count); the two kinds of run differ in nothing else, so that   *)
(* either indexes the code files and creates the document entries.         *)
(***************************************************************************)
C18_Modes ==
    /\ "--docs-keywords-only" \in argv =>
          \A p \in DocumentEntries : index.files[p].content = <<>>
    /\ "--docs-keywords-only" \notin argv =>
          \A p \in DocumentEntries :
             /\ index.files[p].lines = Len(File(p).text)
             /\ index.files[p].content = build_line_index(File(p).text)
    /\ (RunEnded /\ "--skip-docs" \notin argv) =>
          /\ \A p \in ReadableCode : p \in DOMAIN index.files
          /\ \A n \in 1..Len(all_files) :
                (/\ all_files[n].type = "document"
                 /\ parse_document(File(all_files[n].path), all_files[n].doc_type).ok)
                   => all_files[n].path \in DocumentEntries

(***************************************************************************)
(* C19: after a run, overlapping roots included, the global functions list *)
(* holds for every stored path as many records as the path's own list:     *)
(* each local record is copied into the global list exactly once.          *)
(***************************************************************************)
C19_OneGlobalCopyPerRecord ==
    PassOver =>
        \A p \in DOMAIN index.files :
            Len(SelectSeq(index.functions, LAMBDA r : r.file = p))
                = Len(index.files[p].functions)

(***************************************************************************)
(* C20: every candidate is accounted for exactly once.  The scan counts    *)
(* each candidate in code_files or doc_files; processing a candidate adds  *)
(* one to indexed_files or one to errors, never to both; so when the pass  *)
(* is over code_files + doc_files = indexed_files + errors; and the index  *)
(* never holds more entries than indexed_files.                            *)
(***************************************************************************)
C20_EveryCandidateAccounted ==
    /\ [](stats.code_files + stats.doc_files = Len(all_files))
    /\ [](PassOver => stats.code_files + stats.doc_files
                         = stats.indexed_files + stats.errors)
    /\ [](Cardinality(DOMAIN index.files) <= stats.indexed_files)
    /\ [][ /\ ~(stats'.indexed_files > stats.indexed_files
                 /\ stats'.errors > stats.errors)
           /\ AtCandidate =>
                 stats'.indexed_files + stats'.errors
                    = stats.indexed_files + stats.errors + 1 ]_vars

\* A run is complete in which one candidate failed and another was indexed
\* twice, so that the entries are fewer than indexed_files.
C20_Witness ==
    /\ pc = "done"
    /\ stats.errors > 0
    /\ Cardinality(DOMAIN index.files) < stats.indexed_files
    /\ stats.code_files > 0
    /\ stats.doc_files > 0

(***************************************************************************)
(* C21: parse_pdf returns the extracted text whenever an installed PDF     *)
(* parser succeeds on the file.  pdfplumber is tried first when it is      *)
(* installed; when it fails PyPDF2 is tried if that is installed; the text *)
(* is absent only when every installed parser failed or none is installed; *)
(* once pdfplumber has succeeded PyPDF2 is not called.                     *)
(***************************************************************************)
C21_PdfFallback ==
    \A n \in 1..Len(attempts) :
        LET f == File(attempts[n].path)
            plumber == PARSERS_AVAILABLE.pdfplumber
            pypdf == PARSERS_AVAILABLE.pdf
            res == parse_pdf(f)
            used == {res.calls[m] : m \in 1..Len(res.calls)}
        IN  (all_files[n].type = "document" /\ all_files[n].doc_type = "pdf") =>
              /\ res.ok <=> ((plumber /\ f.plumber_ok) \/ (pypdf /\ f.lib_ok))
              /\ res.ok => res.text = f.text
              /\ (attempts[n].outcome = "indexed") <=> res.ok
              /\ res.ok => /\ attempts[n].path \in DOMAIN index.files
                           /\ index.files[attempts[n].path].lines = Len(f.text)
              /\ "pdfplumber" \in used <=> plumber
              /\ "PyPDF2" \in used <=> (pypdf /\ ~(plumber /\ f.plumber_ok))
              /\ Len(res.calls) = Cardinality(used)
              /\ plumber => res.calls[1] = "pdfplumber"

\* A PDF on which pdfplumber fails was indexed from what PyPDF2 extracted.
C21_Witness ==
    /\ pc = "done"
    /\ PARSERS_AVAILABLE.pdfplumber
    /\ PARSERS_AVAILABLE.pdf
    /\ \E n \in 1..Len(attempts) :
          /\ all_files[n].doc_type = "pdf"
          /\ ~File(attempts[n].path).plumber_ok
          /\ File(attempts[n].path).lib_ok
          /\ attempts[n].outcome = "indexed"
          /\ parse_pdf(File(attempts[n].path)).calls = <<"pdfplumber", "PyPDF2">>

(***************************************************************************)
(* C22: for a file that can be opened read_text_file returns text decoded  *)
(* with the first or the second encoding of its list, since the second,    *)
(* latin-1, decodes any bytes: the later encodings and the binary fallback *)
(* are never used, None is never returned for such a file, and no code     *)
(* file is counted as an error because of its encoding.                    *)
(***************************************************************************)
C22_LatinAlwaysDecodes ==
    /\ \A p \in DOMAIN fs :
          fs[p].openable =>
             /\ read_text_file(fs[p]).kind = "text"
             /\ read_text_file(fs[p]).encoding \in {"utf-8", "latin-1"}
             /\ read_text_file(fs[p]).encoding = "latin-1"
                   => ~(fs[p].bytes \in {"ascii", "utf8"})
    /\ \A n \in 1..Len(attempts) :
          (attempts[n].type = "code" /\ attempts[n].outcome = "error")
             => ~File(attempts[n].path).openable

\* A run is complete without an error: a code file that is not valid UTF-8
\* was indexed, and the workspace holds bytes that only latin-1 decodes.
C22_Witness ==
    /\ pc = "done"
    /\ stats.errors = 0
    /\ \E n \in 1..Len(attempts) :
          /\ attempts[n].type = "code"
          /\ File(attempts[n].path).bytes = "latin"
          /\ attempts[n].outcome = "indexed"
    /\ \E p \in DOMAIN fs :
          /\ fs[p].bytes = "undef"
          /\ read_text_file(fs[p]).encoding = "latin-1"

====
